---- MODULE Spec2Model ----
(***************************************************************************)
(* Model of the avatar backend gateway (backend/app/routes/heygen.py and   *)
(* backend/app/routes/stream.py): the keyword cache, the sentence chunker, *)
(* the /chat response resolution and the /stream/chat event generator.     *)
(* Text is modelled by TLA+ strings; Len, SubSeq and \o act on them as     *)
(* Python's len, slicing and + do.                                         *)
(***************************************************************************)
EXTENDS Integers, Sequences, FiniteSets, TLC

VARIABLES
    env,        \* process environment: a map from variable name to string
    pc,         \* position of the handler that is running ("idle" if none)
    request,    \* body of the request being handled
    calls,      \* log of the cache / provider calls made for the request
    cached,     \* chat's local variable: result of check_cached_response
    upstream,   \* what the provider called for the request did (its outcome)
    reply,      \* HTTP reply of /chat
    events,     \* SSE events emitted so far by /stream/chat
    text,       \* input of chunk_into_sentences
    chunks      \* output of chunk_into_sentences

vars == <<env, pc, request, calls, cached, upstream, reply, events, text, chunks>>

(***************************************************************************)
(* Bounds of the model.                                                    *)
(***************************************************************************)
MaxMsgParts == 2      \* a message is made of at most this many fragments
MaxTextParts == 3     \* a chunker input is made of at most this many pieces
MaxFragments == 2     \* the upstream stream yields at most this many fragments

(***************************************************************************)
(* Python string primitives.                                               *)
(***************************************************************************)
Ch(s, i) == SubSeq(s, i, i)

Whitespace == {" ", "\t", "\n"}

IsSpace(c) == c \in Whitespace

UpperCase == <<"A", "B", "C", "D", "E", "F", "G", "H", "I", "J", "K", "L", "M",
               "N", "O", "P", "Q", "R", "S", "T", "U", "V", "W", "X", "Y", "Z">>

LowerCase == <<"a", "b", "c", "d", "e", "f", "g", "h", "i", "j", "k", "l", "m",
               "n", "o", "p", "q", "r", "s", "t", "u", "v", "w", "x", "y", "z">>

LowerCh(c) ==
    IF \E k \in 1..26 : UpperCase[k] = c
    THEN LowerCase[CHOOSE k \in 1..26 : UpperCase[k] = c]
    ELSE c

\* str.lower(), character by character (the string is halved so that the
\* evaluation depth stays logarithmic in its length).
RECURSIVE lower(_)
lower(s) ==
    IF Len(s) = 0 THEN ""
    ELSE IF Len(s) = 1 THEN LowerCh(s)
    ELSE LET h == Len(s) \div 2
         IN  lower(SubSeq(s, 1, h)) \o lower(SubSeq(s, h + 1, Len(s)))

\* `word in s`
Contains(s, word) ==
    \E i \in 1..(Len(s) - Len(word) + 1) : SubSeq(s, i, i + Len(word) - 1) = word

\* Index of the first non-whitespace character of s at or after i
\* (Len(s) + 1 if there is none).
FirstNonSpace(s, i) ==
    IF \A j \in i..Len(s) : IsSpace(Ch(s, j))
    THEN IF i > Len(s) + 1 THEN i ELSE Len(s) + 1
    ELSE CHOOSE j \in i..Len(s) :
             ~IsSpace(Ch(s, j)) /\ \A k \in i..(j - 1) : IsSpace(Ch(s, k))

\* Index of the last non-whitespace character of s at or before i
\* (0 if there is none).
LastNonSpace(s, i) ==
    IF \A j \in 1..i : IsSpace(Ch(s, j))
    THEN 0
    ELSE CHOOSE j \in 1..i :
             ~IsSpace(Ch(s, j)) /\ \A k \in (j + 1)..i : IsSpace(Ch(s, k))

\* str.strip()
strip(s) == SubSeq(s, FirstNonSpace(s, 1), LastNonSpace(s, Len(s)))

(***************************************************************************)
(* Sentence chunker.                                                       *)
(***************************************************************************)
SentenceEnd == {".", "!", "?"}

ChunkThreshold == 120

\* re.split(r'(?<=[.!?])\s+', s): s is cut at every whitespace run that
\* directly follows '.', '!' or '?'; the run itself is dropped.
\* SeparatorAt(s, from) is the start of the leftmost match at or after
\* from (0 if there is none); start is where the current sentence begins.
IsSeparatorStart(s, i) ==
    IsSpace(Ch(s, i)) /\ i > 1 /\ Ch(s, i - 1) \in SentenceEnd

SeparatorAt(s, from) ==
    IF \A i \in from..Len(s) : ~IsSeparatorStart(s, i)
    THEN 0
    ELSE CHOOSE i \in from..Len(s) :
             IsSeparatorStart(s, i) /\ \A k \in from..(i - 1) : ~IsSeparatorStart(s, k)

RECURSIVE SplitFrom(_, _, _)
SplitFrom(s, start, acc) ==
    LET i == SeparatorAt(s, start)
    IN  IF i = 0 THEN Append(acc, SubSeq(s, start, Len(s)))
        ELSE SplitFrom(s, FirstNonSpace(s, i), Append(acc, SubSeq(s, start, i - 1)))

re_split(s) == SplitFrom(s, 1, <<>>)

\* Body of the for loop: the state is the list of chunks and current_chunk.
ChunkStepDropFlush(st, sentence) ==
    IF Len(st.current_chunk) + Len(sentence) < ChunkThreshold
    THEN [st EXCEPT !.current_chunk = @ \o sentence \o " "]
    ELSE [st EXCEPT !.current_chunk = sentence \o " "]

ChunkStepInclusive(st, sentence) ==
    IF Len(st.current_chunk) + Len(sentence) <= ChunkThreshold
    THEN [st EXCEPT !.current_chunk = @ \o sentence \o " "]
    ELSE [chunks |-> IF st.current_chunk # ""
                     THEN Append(st.chunks, strip(st.current_chunk))
                     ELSE st.chunks,
          current_chunk |-> sentence \o " "]

ChunkStep(st, sentence) ==
    IF Len(st.current_chunk) + Len(sentence) < ChunkThreshold
    THEN [st EXCEPT !.current_chunk = @ \o sentence \o " "]
    ELSE [chunks |-> IF st.current_chunk # ""
                     THEN Append(st.chunks, strip(st.current_chunk))
                     ELSE st.chunks,
          current_chunk |-> sentence \o " "]

RECURSIVE ChunkLoop(_, _, _)
ChunkLoop(sentences, k, st) ==
    IF k > Len(sentences) THEN st
    ELSE ChunkLoop(sentences, k + 1, ChunkStep(st, sentences[k]))

chunk_into_sentences(t) ==
    LET sentences == re_split(strip(t))
        st == ChunkLoop(sentences, 1, [chunks |-> <<>>, current_chunk |-> ""])
    IN  IF st.current_chunk # ""
        THEN Append(st.chunks, strip(st.current_chunk))
        ELSE st.chunks

(***************************************************************************)
(* Inputs of the chunker: every concatenation of at most MaxTextParts      *)
(* pieces.  The long words make the buffer reach the threshold.            *)
(***************************************************************************)
RECURSIVE Word(_)
Word(n) ==
    IF n = 0 THEN ""
    ELSE LET half == Word(n \div 2)
         IN  half \o half \o (IF n % 2 = 1 THEN "a" ELSE "")

TextPieces == {"b", ".", "!", " ", "\n", ". ", "?\t ", Word(58), Word(59), Word(130)}

RECURSIVE Concats(_, _)
Concats(pieces, n) ==
    IF n = 0 THEN {""}
    ELSE LET shorter == Concats(pieces, n - 1)
         IN  shorter \cup {s \o p : s \in shorter, p \in pieces}

Texts == Concats(TextPieces, MaxTextParts)

(***************************************************************************)
(* Python values: Optional, dict, exceptions.                              *)
(***************************************************************************)
None == <<>>

Some(x) == <<x>>

\* bool(x) of an Optional[str]: None and "" are falsy
Truthy(opt) == opt # None /\ opt[1] # ""

EmptyMap == [k \in {} |-> ""]

\* dict.get(key, default)
Get(dict, key, default) == IF key \in DOMAIN dict THEN dict[key] ELSE default

Ok(v) == [exc |-> FALSE, value |-> v]

HTTPException(status_code, detail) ==
    [exc |-> TRUE, class |-> "HTTPException", status_code |-> status_code,
     detail |-> detail]

Raise(class, message) ==
    [exc |-> TRUE, class |-> class, status_code |-> 0, detail |-> message]

\* str(e)
str(e) ==
    IF e.class = "HTTPException"
    THEN ToString(e.status_code) \o ": " \o e.detail
    ELSE e.detail

\* os.getenv(name, default)
getenv(name, default) == IF name \in DOMAIN env THEN env[name] ELSE default

\* bool(os.getenv(name)): the variable is set and not empty
IsSet(name) == name \in DOMAIN env /\ env[name] # ""

(***************************************************************************)
(* Cache matcher.                                                          *)
(***************************************************************************)
CACHED_RESPONSES ==
    [pricing |-> "Our physiotherapy sessions are £75 for both assessments and follow-ups. Each session is 50 minutes. If we use specialist equipment like shockwave therapy or Class IV laser, there's an additional £45 surcharge. Remedial rehabilitation sessions are £65, and prescribing is £12.50.",
     hours |-> "We're open Monday to Friday, 8:30am to 9:00pm. We're closed on weekends and all UK bank holidays.",
     locations |-> "We have two locations. Our Alcester clinic is at Kinwarton Road, Alcester, B49 6AD. Our Redditch clinic is at 51 Bromsgrove Road, Redditch, B97 4RH.",
     cancellation |-> "We have a 24-hour cancellation policy. If you cancel with less than 24 hours notice, the full fee will be charged.",
     insurance |-> "We operate on a self-pay model. You pay upfront and you're welcome to claim back from your insurance. We don't work directly with Bupa, but many patients successfully claim from other insurers."]

\* any(word in msg_lower for word in words)
AnyWordIn(msg_lower, words) == \E word \in words : Contains(msg_lower, word)

check_cached_response_case_sensitive(message) ==
    LET msg_lower == message
    IN  IF AnyWordIn(msg_lower, {"price", "cost", "how much", "fee"})
        THEN Some(CACHED_RESPONSES.pricing)
        ELSE IF AnyWordIn(msg_lower, {"hours", "open", "when are you", "opening"})
        THEN Some(CACHED_RESPONSES.hours)
        ELSE IF AnyWordIn(msg_lower, {"location", "address", "where"})
        THEN Some(CACHED_RESPONSES.locations)
        ELSE IF AnyWordIn(msg_lower, {"cancel", "reschedule"})
        THEN Some(CACHED_RESPONSES.cancellation)
        ELSE IF AnyWordIn(msg_lower, {"insurance", "bupa", "claim"})
        THEN Some(CACHED_RESPONSES.insurance)
        ELSE None

check_cached_response_hours_first(message) ==
    LET msg_lower == lower(message)
    IN  IF AnyWordIn(msg_lower, {"hours", "open", "when are you", "opening"})
        THEN Some(CACHED_RESPONSES.hours)
        ELSE IF AnyWordIn(msg_lower, {"price", "cost", "how much", "fee"})
        THEN Some(CACHED_RESPONSES.pricing)
        ELSE IF AnyWordIn(msg_lower, {"location", "address", "where"})
        THEN Some(CACHED_RESPONSES.locations)
        ELSE IF AnyWordIn(msg_lower, {"cancel", "reschedule"})
        THEN Some(CACHED_RESPONSES.cancellation)
        ELSE IF AnyWordIn(msg_lower, {"insurance", "bupa", "claim"})
        THEN Some(CACHED_RESPONSES.insurance)
        ELSE None

check_cached_response(message) ==
    LET msg_lower == lower(message)
    IN  IF AnyWordIn(msg_lower, {"price", "cost", "how much", "fee"})
        THEN Some(CACHED_RESPONSES.pricing)
        ELSE IF AnyWordIn(msg_lower, {"hours", "open", "when are you", "opening"})
        THEN Some(CACHED_RESPONSES.hours)
        ELSE IF AnyWordIn(msg_lower, {"location", "address", "where"})
        THEN Some(CACHED_RESPONSES.locations)
        ELSE IF AnyWordIn(msg_lower, {"cancel", "reschedule"})
        THEN Some(CACHED_RESPONSES.cancellation)
        ELSE IF AnyWordIn(msg_lower, {"insurance", "bupa", "claim"})
        THEN Some(CACHED_RESPONSES.insurance)
        ELSE None

(***************************************************************************)
(* /chat: the providers.                                                   *)
(***************************************************************************)
\* call_brain_api after the POST has returned.  outcome is what the brain
\* service did: an httpx.HTTPError (connection failure, timeout, 4xx/5xx
\* status), a body that is not JSON, or a JSON object.
call_brain_api(outcome) ==
    IF ~IsSet("BRAIN_API_URL")
    THEN HTTPException(500, "BRAIN_API_URL not set")
    ELSE IF outcome.kind = "http_error"
    THEN HTTPException(502, "Brain API error: " \o outcome.error)
    ELSE IF outcome.kind = "bad_json"
    THEN Raise("JSONDecodeError", outcome.error)
    ELSE Ok(outcome.json)

\* fallback_openai.  outcome is what the prompt file and the completion
\* request did.
fallback_openai(mode, outcome) ==
    IF outcome.kind = "prompt_missing"
    THEN HTTPException(500, "Prompt not found: " \o mode \o "_avatar.txt")
    ELSE IF outcome.kind = "openai_error"
    THEN HTTPException(500, "OpenAI error: " \o outcome.error)
    ELSE Ok(outcome.content)

(***************************************************************************)
(* /chat: the handler.                                                     *)
(***************************************************************************)
DefaultSafety == [is_emergency |-> FALSE, refuse_diagnosis |-> FALSE]

ChatResponse(response, chunks_, safety, meta) ==
    [response |-> response, chunks |-> chunks_, safety |-> safety, meta |-> meta]

CacheHitResponse(answer) ==
    ChatResponse(answer, chunk_into_sentences(answer), DefaultSafety,
                 [source |-> "cache", latency_ms |-> 0])

\* brain_url and not use_fallback
RouteToBrainIgnoreFlag == IsSet("BRAIN_API_URL")

RouteToBrain ==
    LET use_fallback == lower(getenv("USE_OPENAI_FALLBACK", "false")) = "true"
    IN  IsSet("BRAIN_API_URL") /\ ~use_fallback

BrainSafetyDefault(brain_response) == DefaultSafety

BrainSafety(brain_response) == Get(brain_response, "safety", DefaultSafety)

BrainMeta(brain_response) == Get(brain_response, "meta", EmptyMap)

\* The brain branch once call_brain_api has returned or raised.
BrainBranch(result) ==
    IF result.exc THEN result
    ELSE LET brain_response == result.value
         IN  IF "response" \notin DOMAIN brain_response
             THEN Raise("KeyError", "'response'")
             ELSE LET response_text == brain_response.response
                  IN  Ok(ChatResponse(response_text,
                                      chunk_into_sentences(response_text),
                                      BrainSafety(brain_response),
                                      BrainMeta(brain_response)))

\* The fallback branch once fallback_openai has returned or raised.  A
\* completion without content is None, which chunk_into_sentences cannot strip.
FallbackBranch(result) ==
    IF result.exc THEN result
    ELSE IF result.value = None
    THEN Raise("AttributeError", "'NoneType' object has no attribute 'strip'")
    ELSE LET response_text == result.value[1]
         IN  Ok(ChatResponse(response_text, chunk_into_sentences(response_text),
                             DefaultSafety, [source |-> "openai_fallback"]))

\* except Exception as e: raise HTTPException(500, ...)
chat_except_swallow(e) == Ok(ChatResponse("", <<>>, DefaultSafety, EmptyMap))

chat_except(e) == HTTPException(500, "Chat error: " \o str(e))

\* The try block: whatever is raised inside it goes through the handler.
chat_try(result) == IF result.exc THEN chat_except(result) ELSE result

\* What the framework sends: the model, or the HTTPException as {detail}.
Respond(result) ==
    IF result.exc
    THEN [status |-> result.status_code, body |-> [detail |-> result.detail]]
    ELSE [status |-> 200, body |-> result.value]

(***************************************************************************)
(* Requests, environments and provider outcomes of the model.              *)
(***************************************************************************)
Settings(name, values) == {EmptyMap} \cup {name :> v : v \in values}

BrainUrls == Settings("BRAIN_API_URL", {"", "https://brain.example"})

ChatEnvs ==
    {b @@ f : b \in BrainUrls,
              f \in Settings("USE_OPENAI_FALLBACK", {"true", "TRUE", "false"})}

MsgPieces == {"Price", "how much", "hours", "Where", "cancel", "BUPA", "hi ", "fe", "e"}

Messages == Concats(MsgPieces, MaxMsgParts)

Modes == {"clinic", "rehab"}

Histories == {<<>>, <<[role |-> "user", content |-> "What is the price?"]>>}

SessionIds == {None, Some("s1")}

Requests ==
    [mode : Modes, message : Messages, history : Histories, session_id : SessionIds]

SafetyMaps == {[is_emergency |-> TRUE, refuse_diagnosis |-> FALSE],
               [is_emergency |-> FALSE, refuse_diagnosis |-> TRUE]}
Optional(key, values) == {EmptyMap} \cup {key :> v : v \in values}

ResponseTexts == {"", "Rest the knee. Ice it twice a day!"}

BrainJsons ==
    {r @@ sf @@ m :
        r \in Optional("response", ResponseTexts),
        sf \in Optional("safety", SafetyMaps),
        m \in Optional("meta", {EmptyMap, [source |-> "brain", latency_ms |-> 840]})}

BrainOutcomes ==
    {[provider |-> "brain", kind |-> "http_error", error |-> "503 Service Unavailable"],
     [provider |-> "brain", kind |-> "bad_json", error |-> "Expecting value"]}
    \cup {[provider |-> "brain", kind |-> "ok", json |-> j] : j \in BrainJsons}

FallbackOutcomes ==
    {[provider |-> "fallback", kind |-> "prompt_missing"],
     [provider |-> "fallback", kind |-> "openai_error", error |-> "Connection error."],
     [provider |-> "fallback", kind |-> "ok", content |-> None]}
    \cup {[provider |-> "fallback", kind |-> "ok", content |-> Some(t)] :
             t \in ResponseTexts}

NoOutcome == [provider |-> "none", kind |-> "none"]

Idle == [status |-> 0]

(***************************************************************************)
(* /chat as a state machine.  The handler runs from the request to its     *)
(* only suspension point, the POST to the brain; the fallback path has     *)
(* none (the completion client is synchronous).                            *)
(***************************************************************************)
InitChat ==
    /\ env \in ChatEnvs
    /\ pc = "idle"
    /\ request = <<>>
    /\ calls = <<>>
    /\ cached = None
    /\ upstream = NoOutcome
    /\ reply = Idle
    /\ events = <<>>
    /\ text = ""
    /\ chunks = <<>>

chat(req) ==
    /\ pc = "idle"
    /\ request' = req
    /\ cached' = check_cached_response(req.message)
    /\ IF Truthy(cached')
       THEN /\ calls' = <<"cache">>
            /\ upstream' = NoOutcome
            /\ \E result \in {Ok(CacheHitResponse(cached'[1]))} :
                   reply' = Respond(chat_try(result))
            /\ pc' = "done"
       ELSE IF RouteToBrain
       THEN /\ calls' = <<"cache", "brain">>
            /\ upstream' = NoOutcome
            /\ reply' = Idle
            /\ pc' = "await_brain"
       ELSE \E outcome \in FallbackOutcomes :
            /\ calls' = <<"cache", "fallback">>
                        \o (IF outcome.kind = "prompt_missing" THEN <<>> ELSE <<"openai">>)
            /\ upstream' = outcome
            /\ \E result \in {FallbackBranch(fallback_openai(req.mode, outcome))} :
                   reply' = Respond(chat_try(result))
            /\ pc' = "done"
    /\ UNCHANGED <<env, events, text, chunks>>

BrainReturns(outcome) ==
    /\ pc = "await_brain"
    /\ upstream' = outcome
    /\ \E result \in {BrainBranch(call_brain_api(outcome))} :
           reply' = Respond(chat_try(result))
    /\ pc' = "done"
    /\ UNCHANGED <<env, request, calls, cached, events, text, chunks>>

\* The reply has been sent; the next request starts from a clean handler.
ChatFinish ==
    /\ pc = "done"
    /\ pc' = "idle"
    /\ request' = <<>>
    /\ calls' = <<>>
    /\ cached' = None
    /\ upstream' = NoOutcome
    /\ reply' = Idle
    /\ UNCHANGED <<env, events, text, chunks>>

NextChat ==
    \/ \E req \in Requests : chat(req)
    \/ \E outcome \in BrainOutcomes : BrainReturns(outcome)
    \/ ChatFinish

SpecChat == InitChat /\ [][NextChat]_vars

(***************************************************************************)
(* /stream/chat: the generator of SSE events.  Each yield is one event     *)
(* (one "data: <json>" frame); the event is modelled by its JSON object.   *)
(***************************************************************************)
StreamEnvs ==
    {b @@ f : b \in BrainUrls,
              f \in Settings("ENABLE_STREAMING", {"true", "TRUE", "false"})}

\* The generator passes the message on without looking into it.
StreamRequests ==
    [mode : Modes, message : {""} \cup MsgPieces, history : Histories,
     session_id : SessionIds]

Fragments == {"Rest the knee.", "Ice it twice a day!"}

StreamFailures == {"Connection reset", "Expecting value"}

ImportFailure == "cannot import name 'call_brain_api_stream'"

InitStream ==
    /\ env \in StreamEnvs
    /\ pc = "idle"
    /\ request = <<>>
    /\ calls = <<>>
    /\ cached = None
    /\ upstream = NoOutcome
    /\ reply = Idle
    /\ events = <<>>
    /\ text = ""
    /\ chunks = <<>>

\* generate() up to its first suspension
stream_chat(req) ==
    /\ pc = "idle"
    /\ request' = req
    /\ LET streaming_enabled == lower(getenv("ENABLE_STREAMING", "false")) = "true"
       IN  IF ~streaming_enabled \/ ~IsSet("BRAIN_API_URL")
           THEN /\ events' = <<[error |-> "Streaming not enabled"]>>
                /\ pc' = "closed"
           ELSE /\ events' = <<>>
                /\ pc' = "connecting"
    /\ UNCHANGED <<env, calls, cached, upstream, reply, text, chunks>>

\* What the upstream brain stream has done so far for the request.
Upstream(kind, fragments, error) ==
    [provider |-> "brain", kind |-> kind, fragments |-> fragments, error |-> error]

\* from app.routes.heygen import call_brain_api_stream raises ImportError
StreamImportFails ==
    /\ pc = "connecting"
    /\ upstream' = Upstream("failed", <<>>, ImportFailure)
    /\ events' = Append(events, [type |-> "error", message |-> ImportFailure])
    /\ pc' = "closed"
    /\ UNCHANGED <<env, request, calls, cached, reply, text, chunks>>

\* call_brain_api_stream opens the upstream stream
call_brain_api_stream ==
    /\ pc = "connecting"
    /\ calls' = <<"brain">>
    /\ upstream' = Upstream("open", <<>>, "")
    /\ pc' = "streaming"
    /\ UNCHANGED <<env, request, cached, reply, events, text, chunks>>

\* The upstream yields a fragment and the loop body forwards it.
StreamSentence(sentence) ==
    /\ pc = "streaming"
    /\ Len(upstream.fragments) < MaxFragments
    /\ upstream' = Upstream("open", Append(upstream.fragments, sentence), "")
    /\ events' = Append(events, [type |-> "sentence", text |-> sentence])
    /\ UNCHANGED <<env, pc, request, calls, cached, reply, text, chunks>>

\* The upstream is exhausted: the loop ends and the completion event is sent.
StreamDone ==
    /\ pc = "streaming"
    /\ upstream' = Upstream("completed", upstream.fragments, "")
    /\ events' = Append(events, [type |-> "done"])
    /\ pc' = "closed"
    /\ UNCHANGED <<env, request, calls, cached, reply, text, chunks>>

\* The upstream raises: except Exception sends the error event.
StreamFailsThenDone(message) ==
    /\ pc = "streaming"
    /\ upstream' = Upstream("failed", upstream.fragments, message)
    /\ events' = events \o <<[type |-> "error", message |-> message], [type |-> "done"]>>
    /\ pc' = "closed"
    /\ UNCHANGED <<env, request, calls, cached, reply, text, chunks>>

StreamFails(message) ==
    /\ pc = "streaming"
    /\ upstream' = Upstream("failed", upstream.fragments, message)
    /\ events' = Append(events, [type |-> "error", message |-> message])
    /\ pc' = "closed"
    /\ UNCHANGED <<env, request, calls, cached, reply, text, chunks>>

StreamFinish ==
    /\ pc = "closed"
    /\ pc' = "idle"
    /\ request' = <<>>
    /\ calls' = <<>>
    /\ upstream' = NoOutcome
    /\ events' = <<>>
    /\ UNCHANGED <<env, cached, reply, text, chunks>>

NextStream ==
    \/ \E req \in StreamRequests : stream_chat(req)
    \/ StreamImportFails
    \/ call_brain_api_stream
    \/ \E sentence \in Fragments : StreamSentence(sentence)
    \/ StreamDone
    \/ \E message \in StreamFailures : StreamFails(message)
    \/ StreamFinish

SpecStream == InitStream /\ [][NextStream]_vars

(***************************************************************************)
(* The chunker on its own.                                                 *)
(***************************************************************************)
InitChunk ==
    /\ text \in Texts
    /\ chunks = <<>>
    /\ pc = "chunk"
    /\ env = EmptyMap
    /\ request = <<>>
    /\ calls = <<>>
    /\ cached = None
    /\ upstream = NoOutcome
    /\ reply = Idle
    /\ events = <<>>

Chunk ==
    /\ pc = "chunk"
    /\ chunks' = chunk_into_sentences(text)
    /\ pc' = "chunked"
    /\ UNCHANGED <<env, request, calls, cached, upstream, reply, events, text>>

NextChunk == Chunk

SpecChunk == InitChunk /\ [][NextChunk]_vars

(***************************************************************************)
(* Properties.  The keyword table below restates the topics and their      *)
(* priority order independently of check_cached_response.                  *)
(***************************************************************************)
TopicOrder == <<"pricing", "hours", "locations", "cancellation", "insurance">>

TopicKeywords ==
    [pricing |-> {"price", "cost", "how much", "fee"},
     hours |-> {"hours", "open", "when are you", "opening"},
     locations |-> {"location", "address", "where"},
     cancellation |-> {"cancel", "reschedule"},
     insurance |-> {"insurance", "bupa", "claim"}]

\* The topics that have a keyword in the lower-cased message.
MentionedTopics(message) ==
    UNION {{topic \in DOMAIN TopicKeywords :
               \E word \in TopicKeywords[topic] : Contains(low, word)} :
           low \in {lower(message)}}

\* The first of the topics found, in priority order.
FirstTopic(found) ==
    TopicOrder[CHOOSE k \in DOMAIN TopicOrder :
                   /\ TopicOrder[k] \in found
                   /\ \A j \in 1..(k - 1) : TopicOrder[j] \notin found]

\* The chunker's output on each canonical answer.
CanonicalChunks ==
    [topic \in DOMAIN CACHED_RESPONSES |-> chunk_into_sentences(CACHED_RESPONSES[topic])]

\* C1: a /chat request whose message contains a cache keyword (in any case)
\* is answered, whatever the mode, history, session_id and environment, with
\* status 200, the canonical answer of a topic the message mentions,
\* meta = {source: "cache", latency_ms: 0}, safety = {false, false} and the
\* chunker's output on that answer; no provider is called.
CacheHitReply ==
    pc # "idle" =>
        \A found \in {MentionedTopics(request.message)} :
            found # {} =>
                /\ pc = "done"
                /\ calls = <<"cache">>
                /\ reply.status = 200
                /\ \E topic \in found :
                      /\ reply.body.response = CACHED_RESPONSES[topic]
                      /\ reply.body.chunks = CanonicalChunks[topic]
                /\ reply.body.meta = [source |-> "cache", latency_ms |-> 0]
                /\ reply.body.safety = [is_emergency |-> FALSE, refuse_diagnosis |-> FALSE]

\* C1 witness: a mixed-case pricing keyword, with a history, a session id,
\* a brain endpoint and the fallback flag all present, answered from the cache.
CacheHitWitness ==
    /\ pc = "done"
    /\ Contains(request.message, "Price")
    /\ request.history # <<>>
    /\ request.session_id # None
    /\ IsSet("BRAIN_API_URL")
    /\ "USE_OPENAI_FALLBACK" \in DOMAIN env
    /\ reply.status = 200
    /\ reply.body.response = CACHED_RESPONSES.pricing
    /\ Len(reply.body.chunks) = 3

\* C2: check_cached_response returns the answer of the first topic, in the
\* order pricing, hours, locations, cancellation, insurance, that has a
\* keyword in the lower-cased message, and None when no topic has one.
CachePriority ==
    pc # "idle" =>
        \A found \in {MentionedTopics(request.message)} :
            cached = IF found = {} THEN None
                     ELSE Some(CACHED_RESPONSES[FirstTopic(found)])

\* C2 witness: a message with a pricing and an hours keyword got the
\* pricing answer.
CachePriorityWitness ==
    /\ pc # "idle"
    /\ {"pricing", "hours"} \subseteq MentionedTopics(request.message)
    /\ cached = Some(CACHED_RESPONSES.pricing)

BrainSelected ==
    /\ "BRAIN_API_URL" \in DOMAIN env
    /\ env["BRAIN_API_URL"] # ""
    /\ ~("USE_OPENAI_FALLBACK" \in DOMAIN env
         /\ lower(env["USE_OPENAI_FALLBACK"]) = "true")

\* C3: the cache is consulted first; on a cache miss exactly one provider is
\* called, the brain iff an endpoint is configured and the fallback flag is
\* not set, the fallback otherwise; a failed brain call is followed by no
\* other call.
OneProviderPerRequest ==
    pc # "idle" =>
        /\ Len(calls) >= 1 /\ calls[1] = "cache"
        /\ IF MentionedTopics(request.message) # {}
           THEN calls = <<"cache">>
           ELSE /\ Cardinality({i \in DOMAIN calls : calls[i] \in {"brain", "fallback"}}) = 1
                /\ calls[2] = (IF BrainSelected THEN "brain" ELSE "fallback")
                /\ \A i \in DOMAIN calls : calls[i] = "openai" => calls[2] = "fallback"
        /\ (upstream.provider = "brain" /\ upstream.kind # "ok")
               => calls = <<"cache", "brain">>

\* C3 witness: a brain call failed and nothing was called after it.
FailedBrainWitness ==
    /\ pc = "done"
    /\ upstream.provider = "brain"
    /\ upstream.kind = "http_error"
    /\ calls = <<"cache", "brain">>

\* C4 (as claimed): every successful reply has meta.source, equal to "cache",
\* "brain" or "fallback" according to the path that produced the text.
MetaSourceMatchesPath ==
    (pc = "done" /\ reply.status = 200) =>
        /\ "source" \in DOMAIN reply.body.meta
        /\ reply.body.meta.source =
              (IF calls = <<"cache">> THEN "cache"
               ELSE IF calls[2] = "brain" THEN "brain" ELSE "fallback")

BrainFailureIs502 ==
    (pc = "done" /\ upstream.provider = "brain" /\ upstream.kind = "http_error")
        => reply.status = 502

ProviderFailed ==
    \/ upstream.kind \in {"http_error", "bad_json", "prompt_missing", "openai_error"}
    \/ /\ upstream.provider = "brain"
       /\ upstream.kind = "ok"
       /\ "response" \notin DOMAIN upstream.json
    \/ /\ upstream.provider = "fallback"
       /\ upstream.kind = "ok"
       /\ upstream.content = None

\* C7: a resolution whose provider failed is answered with a 5xx status and a
\* body that is only a non-empty detail message naming the failure; every
\* other resolution is answered with status 200 and a complete response.
AtomicResolution ==
    pc = "done" =>
        IF ProviderFailed
        THEN /\ reply.status \in 500..599
             /\ DOMAIN reply.body = {"detail"}
             /\ Len(reply.body.detail) > 0
             /\ "error" \in DOMAIN upstream => Contains(reply.body.detail, upstream.error)
        ELSE /\ reply.status = 200
             /\ DOMAIN reply.body = {"response", "chunks", "safety", "meta"}

\* C7 witness: no brain endpoint, the fallback provider failed, status 500.
FallbackFailureWitness ==
    /\ pc = "done"
    /\ ~IsSet("BRAIN_API_URL")
    /\ upstream.kind = "openai_error"
    /\ reply.status = 500

RECURSIVE Join(_)
Join(seq) ==
    IF Len(seq) = 0 THEN ""
    ELSE IF Len(seq) = 1 THEN seq[1]
    ELSE seq[1] \o " " \o Join(Tail(seq))

\* The words of s (maximal runs without whitespace) from index i on, joined
\* by single spaces: s with its whitespace runs collapsed and trimmed.
RECURSIVE CollapseFrom(_, _)
CollapseFrom(s, i) ==
    IF \A j \in i..Len(s) : IsSpace(Ch(s, j)) THEN ""
    ELSE LET first == CHOOSE j \in i..Len(s) :
                          ~IsSpace(Ch(s, j)) /\ \A k \in i..(j - 1) : IsSpace(Ch(s, k))
             last == CHOOSE j \in first..Len(s) :
                         /\ \A k \in first..j : ~IsSpace(Ch(s, k))
                         /\ (j = Len(s) \/ IsSpace(Ch(s, j + 1)))
             rest == CollapseFrom(s, last + 1)
         IN  SubSeq(s, first, last) \o (IF rest = "" THEN "" ELSE " " \o rest)

Collapse(s) == CollapseFrom(s, 1)

\* C8: the chunks joined by single spaces, whitespace-collapsed, are the
\* whitespace-collapsed and trimmed input.
ChunksReassemble ==
    pc = "chunked" => Collapse(Join(chunks)) = Collapse(text)

\* C8 witness: an input cut into several chunks whose separating whitespace
\* was normalised.
ChunksReassembleWitness ==
    /\ pc = "chunked"
    /\ Len(chunks) >= 2
    /\ Join(chunks) # text
    /\ Len(text) >= ChunkThreshold

\* C9 (as claimed): no chunk is empty, an empty or whitespace-only input gives
\* the empty sequence and any other input gives at least one chunk.
NoEmptyChunk ==
    pc = "chunked" =>
        /\ \A i \in DOMAIN chunks : chunks[i] # ""
        /\ (\A j \in 1..Len(text) : IsSpace(Ch(text, j))) => chunks = <<>>
        /\ text # "" => Len(chunks) >= 1

StreamingAvailable ==
    /\ "ENABLE_STREAMING" \in DOMAIN env
    /\ lower(env["ENABLE_STREAMING"]) = "true"
    /\ "BRAIN_API_URL" \in DOMAIN env
    /\ env["BRAIN_API_URL"] # ""

\* C10 (as claimed): with streaming disabled or no brain endpoint the stream
\* is exactly one event, {type: "error", message}, and no provider is contacted.
DisabledStreamOneErrorEvent ==
    (pc \in {"connecting", "streaming", "closed"} /\ ~StreamingAvailable) =>
        /\ pc = "closed"
        /\ calls = <<>>
        /\ Len(events) = 1
        /\ DOMAIN events[1] = {"type", "message"}
        /\ events[1].type = "error"

\* C11: with streaming enabled and a brain endpoint configured, the events
\* are one sentence event per upstream fragment, in the upstream's order; while
\* the stream is open nothing else has been sent, and once it is closed exactly
\* one more event follows them: done if the upstream completed, error carrying
\* the failure message if it failed.
SentencesThenOneTerminal ==
    (pc \in {"streaming", "closed"} /\ StreamingAvailable) =>
        LET n == Len(upstream.fragments)
        IN  /\ Len(events) = (IF pc = "closed" THEN n + 1 ELSE n)
            /\ \A i \in 1..n :
                  events[i] = [type |-> "sentence", text |-> upstream.fragments[i]]
            /\ pc = "closed" =>
                  events[n + 1] = (IF upstream.kind = "completed"
                                   THEN [type |-> "done"]
                                   ELSE [type |-> "error", message |-> upstream.error])

\* C11 witness: two different fragments were forwarded in order and the
\* upstream then failed.
StreamFailedAfterSentences ==
    /\ pc = "closed"
    /\ StreamingAvailable
    /\ upstream.kind = "failed"
    /\ Len(upstream.fragments) = 2
    /\ upstream.fragments[1] # upstream.fragments[2]
    /\ Len(events) = 3

\* Concatenation of a sequence of sequences.
RECURSIVE Flatten(_)
Flatten(seqs) == IF Len(seqs) = 0 THEN <<>> ELSE Head(seqs) \o Flatten(Tail(seqs))

\* C12: the chunks are consecutive groups of the input's sentences, packed
\* greedily: a chunk of two or more sentences is shorter than 120 characters,
\* so a chunk of 120 or more is one unsplit sentence; a chunk was closed only
\* because its buffer (the chunk and a space) plus the next sentence reached
\* 120; an input without a sentence boundary is one chunk, the whole input.
GreedyPacking ==
    pc = "chunked" =>
        \A groups \in {[i \in DOMAIN chunks |-> re_split(chunks[i])]} :
            /\ Flatten(groups) = re_split(strip(text))
            /\ \A i \in DOMAIN chunks :
                  /\ chunks[i] = Join(groups[i])
                  /\ Len(groups[i]) >= 2 => Len(chunks[i]) < 120
                  /\ Len(chunks[i]) >= 120 => Len(groups[i]) = 1
                  /\ i > 1 => Len(chunks[i - 1]) + 1 + Len(groups[i][1]) >= 120
            /\ Len(re_split(strip(text))) = 1 => chunks = <<strip(text)>>

\* C12 witness: two sentences that together with the separating space are
\* exactly 120 characters were not packed into one chunk.
BoundaryFlushWitness ==
    /\ pc = "chunked"
    /\ Len(chunks) = 2
    /\ Len(chunks[1]) + 1 + Len(chunks[2]) = 120
    /\ Len(re_split(strip(text))) = 2

====
